------------------------------ MODULE Spec2Model ------------------------------
(***************************************************************************)
(* A model of luajit-src (src/src/lib.rs): the Build configuration, the    *)
(* try_build pipeline on its Unix (make) and MSVC (msvcbuild.bat) paths,   *)
(* the directory staging done by the cleanup loop and cp_r, the toolchain  *)
(* environment assembled for the external build, and Artifacts::make.      *)
(*                                                                         *)
(* Strings that the code inspects (target and host triples, compiler and   *)
(* tool paths, environment values) are sequences of one-character strings, *)
(* so that contains/ends_with/slicing/join are computed as the code        *)
(* computes them.  Option<T> is a sequence of length 0 (None) or 1 (Some). *)
(***************************************************************************)
EXTENDS Integers, Sequences, FiniteSets, TLC

(***************************************************************************)
(* String literals                                                         *)
(***************************************************************************)
\* "x86_64-unknown-linux-gnu"
x86_64_unknown_linux_gnu == <<"x", "8", "6", "_", "6", "4", "-", "u", "n", "k", "n", "o", "w", "n", "-", "l", "i", "n", "u", "x", "-", "g", "n", "u">>
\* "x86_64-apple-darwin"
x86_64_apple_darwin == <<"x", "8", "6", "_", "6", "4", "-", "a", "p", "p", "l", "e", "-", "d", "a", "r", "w", "i", "n">>
\* "aarch64-apple-darwin"
aarch64_apple_darwin == <<"a", "a", "r", "c", "h", "6", "4", "-", "a", "p", "p", "l", "e", "-", "d", "a", "r", "w", "i", "n">>
\* "x86_64-pc-windows-msvc"
x86_64_pc_windows_msvc == <<"x", "8", "6", "_", "6", "4", "-", "p", "c", "-", "w", "i", "n", "d", "o", "w", "s", "-", "m", "s", "v", "c">>
\* "x86_64-pc-windows-gnu"
x86_64_pc_windows_gnu == <<"x", "8", "6", "_", "6", "4", "-", "p", "c", "-", "w", "i", "n", "d", "o", "w", "s", "-", "g", "n", "u">>
\* "x86_64-unknown-freebsd"
x86_64_unknown_freebsd == <<"x", "8", "6", "_", "6", "4", "-", "u", "n", "k", "n", "o", "w", "n", "-", "f", "r", "e", "e", "b", "s", "d">>
\* "x86_64-unknown-dragonfly"
x86_64_unknown_dragonfly == <<"x", "8", "6", "_", "6", "4", "-", "u", "n", "k", "n", "o", "w", "n", "-", "d", "r", "a", "g", "o", "n", "f", "l", "y">>
\* "aarch64-unknown-freebsd"
aarch64_unknown_freebsd == <<"a", "a", "r", "c", "h", "6", "4", "-", "u", "n", "k", "n", "o", "w", "n", "-", "f", "r", "e", "e", "b", "s", "d">>
\* "msvc"
S_msvc == <<"m", "s", "v", "c">>
\* "linux"
S_linux == <<"l", "i", "n", "u", "x">>
\* "windows"
S_windows == <<"w", "i", "n", "d", "o", "w", "s">>
\* "-freebsd"
S_freebsd == <<"-", "f", "r", "e", "e", "b", "s", "d">>
\* "-dragonfly"
S_dragonfly == <<"-", "d", "r", "a", "g", "o", "n", "f", "l", "y">>
\* "-gcc"
S_dash_gcc == <<"-", "g", "c", "c">>
\* "-clang"
S_dash_clang == <<"-", "c", "l", "a", "n", "g">>
\* "gcc"
S_gcc == <<"g", "c", "c">>
\* "clang"
S_clang == <<"c", "l", "a", "n", "g">>
\* "ar"
S_ar == <<"a", "r">>
\* "strip"
S_strip == <<"s", "t", "r", "i", "p">>
\* "llvm-ar"
S_llvm_ar == <<"l", "l", "v", "m", "-", "a", "r">>
\* "llvm-strip"
S_llvm_strip == <<"l", "l", "v", "m", "-", "s", "t", "r", "i", "p">>
\* " rcus"
S_rcus == <<" ", "r", "c", "u", "s">>
\* " -m32"
S_m32 == <<" ", "-", "m", "3", "2">>
\* " "
S_space == <<" ">>
\* "/"
S_slash == <<"/">>
\* "32"
S_32 == <<"3", "2">>
\* "64"
S_64 == <<"6", "4">>
\* "10.14"
S_10_14 == <<"1", "0", ".", "1", "4">>
\* "11.0"
S_11_0 == <<"1", "1", ".", "0">>
\* "12.0"
S_12_0 == <<"1", "2", ".", "0">>
\* "Linux"
S_Linux == <<"L", "i", "n", "u", "x">>
\* "Windows"
S_Windows == <<"W", "i", "n", "d", "o", "w", "s">>
\* "iOS"
S_iOS == <<"i", "O", "S">>
\* "static"
S_static == <<"s", "t", "a", "t", "i", "c">>
\* "-g"
S_g == <<"-", "g">>
\* "-fPIC"
S_fPIC == <<"-", "f", "P", "I", "C">>
\* "-DLUAJIT_ENABLE_LUA52COMPAT"
S_DLUAJIT_ENABLE_LUA52COMPAT == <<"-", "D", "L", "U", "A", "J", "I", "T", "_", "E", "N", "A", "B", "L", "E", "_", "L", "U", "A", "5", "2", "C", "O", "M", "P", "A", "T">>
\* "-DLUA_USE_ASSERT"
S_DLUA_USE_ASSERT == <<"-", "D", "L", "U", "A", "_", "U", "S", "E", "_", "A", "S", "S", "E", "R", "T">>
\* "-DLUA_USE_APICHECK"
S_DLUA_USE_APICHECK == <<"-", "D", "L", "U", "A", "_", "U", "S", "E", "_", "A", "P", "I", "C", "H", "E", "C", "K">>
\* "lib"
S_lib == <<"l", "i", "b">>
\* "include"
S_include == <<"i", "n", "c", "l", "u", "d", "e">>
\* "luajit-build"
S_luajit_build == <<"l", "u", "a", "j", "i", "t", "-", "b", "u", "i", "l", "d">>
\* "/o"
OutRoot == <<"/", "o">>
\* "cc"
S_cc == <<"c", "c">>
\* "-O2"
S_O2 == <<"-", "O", "2">>
\* "arm-linux-gnueabihf-gcc"
S_arm_gcc == <<"a", "r", "m", "-", "l", "i", "n", "u", "x", "-", "g", "n", "u", "e", "a", "b", "i", "h", "f", "-", "g", "c", "c">>
\* "arm-linux-gnueabihf-clang"
S_arm_clang == <<"a", "r", "m", "-", "l", "i", "n", "u", "x", "-", "g", "n", "u", "e", "a", "b", "i", "h", "f", "-", "c", "l", "a", "n", "g">>
\* "/x/arm-linux-gnueabihf-gcc"
S_abs_arm_gcc == <<"/", "x", "/", "a", "r", "m", "-", "l", "i", "n", "u", "x", "-", "g", "n", "u", "e", "a", "b", "i", "h", "f", "-", "g", "c", "c">>
\* "x/arm-linux-gnueabihf-clang"
S_rel_arm_clang == <<"x", "/", "a", "r", "m", "-", "l", "i", "n", "u", "x", "-", "g", "n", "u", "e", "a", "b", "i", "h", "f", "-", "c", "l", "a", "n", "g">>
\* "/u"
S_usr == <<"/", "u">>
\* "/c"
S_cwd == <<"/", "c">>
\* "hcc"
S_hcc == <<"h", "c", "c">>
\* "scc"
S_scc == <<"s", "c", "c">>
\* "sld"
S_sld == <<"s", "l", "d">>
\* "xar rc"
S_xar == <<"x", "a", "r", " ", "r", "c">>
\* "xstrip"
S_xstrip == <<"x", "s", "t", "r", "i", "p">>
\* "/o/include"
S_o_include == <<"/", "o", "/", "i", "n", "c", "l", "u", "d", "e">>
\* "/o/lib"
S_o_lib == <<"/", "o", "/", "l", "i", "b">>
\* "-fPIC -DLUAJIT_ENABLE_LUA52COMPAT"
S_fPIC_compat == <<"-", "f", "P", "I", "C", " ", "-", "D", "L", "U", "A", "J", "I", "T", "_", "E", "N", "A", "B", "L", "E", "_", "L", "U", "A", "5", "2", "C", "O", "M", "P", "A", "T">>

(***************************************************************************)
(* Option, str and Path helpers                                            *)
(***************************************************************************)
None == <<>>
Some(x) == <<x>>
IsSome(o) == Len(o) = 1
IsNone(o) == Len(o) = 0
Unwrap(o) == o[1]

\* str::contains
Contains(s, p) ==
  \E i \in 1..(Len(s) - Len(p) + 1) : SubSeq(s, i, i + Len(p) - 1) = p

\* str::ends_with
EndsWith(s, p) ==
  /\ Len(s) >= Len(p)
  /\ SubSeq(s, Len(s) - Len(p) + 1, Len(s)) = p

\* &s[..s.len() - n]
DropLast(s, n) == SubSeq(s, 1, Len(s) - n)

\* index of the last path separator of p, 0 when there is none
LastSlash(p) ==
  LET at == {i \in 1..Len(p) : p[i] = "/"}
  IN  IF at = {} THEN 0 ELSE CHOOSE i \in at : \A j \in at : j <= i

IsAbsolute(p) == Len(p) > 0 /\ p[1] = "/"
HasSeparator(p) == LastSlash(p) > 0

\* Path::file_name
FileName(p) == SubSeq(p, LastSlash(p) + 1, Len(p))

\* Path::parent
Parent(p) ==
  IF LastSlash(p) = 1 THEN S_slash ELSE SubSeq(p, 1, LastSlash(p) - 1)

\* Path::join: an absolute argument replaces the base
Join(base, rel) == IF IsAbsolute(rel) THEN rel ELSE base \o S_slash \o rel

(***************************************************************************)
(* The machine the build runs on, and the state of one Build value          *)
(***************************************************************************)
VARIABLES
  penv,             \* the caller's process environment: name -> Option<value>
  tools,            \* the executable files that exist (absolute paths)
  compiler,         \* what cc::Build::get_compiler() yields: path, family, cflags
  debug_assertions, \* cfg!(debug_assertions) of the build of this crate
  out_dir,          \* Build.out_dir : Option<PathBuf>
  target,           \* Build.target  : Option<String>
  host,             \* Build.host    : Option<String>
  lua52compat,      \* Build.lua52compat : bool
  debug,            \* Build.debug   : Option<bool>
  fs,               \* the three directories under the output root
  io_faults,        \* how many more I/O errors the operating system may return
  pc,               \* position of the running try_build, "idle" when none runs
  route,            \* which of build_unix / build_msvc try_build dispatched to
  dir_i,            \* index of the cleanup loop over [build_dir, lib_dir, include_dir]
  cmd,              \* the Command under construction: program, args, env
  prefix,           \* the inferred cross prefix (build_unix)
  compiler_path,    \* the compiler as resolved by which::which (build_unix)
  discovered,       \* the tool lookups this build has performed
  trace,            \* the steps this build has executed, in order
  status,           \* exit status of the external build process
  had_stale,        \* whether this build started on directories with content
  result            \* what the last try_build returned (or how it aborted)

world == <<penv, tools, compiler, debug_assertions>>
config == <<out_dir, target, host, lua52compat, debug>>
frame == <<pc, route, dir_i, cmd, prefix, compiler_path, discovered, trace,
           status, had_stale, result>>
vars == <<world, config, fs, io_faults, frame>>

EnvVars ==
  {"OUT_DIR", "TARGET", "HOST", "CARGO_CFG_TARGET_POINTER_WIDTH",
   "HOST_CC", "STATIC_CC", "TARGET_LD", "TARGET_AR", "TARGET_STRIP",
   "TARGET_SYS", "MACOSX_DEPLOYMENT_TARGET",
   "BUILDMODE", "XCFLAGS", "CCDEBUG", "INCLUDE"}

\* The directories of the cleanup loop, in the order of the array literal.
Dirs == <<"build", "lib", "include">>
DirName == [build |-> S_luajit_build, lib |-> S_lib, include |-> S_include]

\* The triples the setters and the inherited environment draw from.
Targets ==
  {x86_64_unknown_linux_gnu, x86_64_apple_darwin, aarch64_apple_darwin,
   x86_64_pc_windows_msvc, x86_64_pc_windows_gnu}
Hosts ==
  {x86_64_unknown_linux_gnu, x86_64_unknown_freebsd,
   x86_64_unknown_dragonfly, aarch64_unknown_freebsd}

\* EnvAbsent with the check of the caller's environment left out.
EnvAbsentIgnored(name) == TRUE

\* env::var_os(name).is_none()
EnvAbsent(name) == IsNone(penv[name])

NoEnv == [v \in EnvVars |-> None]
NoCommand == [program |-> "", args |-> <<>>, env |-> NoEnv]

NoResult == [kind |-> "none", msg |-> "", include_dir |-> <<>>,
             lib_dir |-> <<>>, libs |-> <<>>]
Pending == [NoResult EXCEPT !.kind = "pending"]
\* a panic: expect/unwrap on None or Err, or panic!
Panic(m) == [NoResult EXCEPT !.kind = "Panic", !.msg = m]
\* Err(DynError) returned through `?`
Err(m) == [NoResult EXCEPT !.kind = "Err", !.msg = m]

(***************************************************************************)
(* impl Default for Build, and the setters                                 *)
(***************************************************************************)
BuildDefault ==
  /\ out_dir = penv["OUT_DIR"]
  /\ target = penv["TARGET"]
  /\ host = penv["HOST"]
  /\ lua52compat = FALSE
  /\ debug = None

NoFrame ==
  /\ pc = "idle"
  /\ route = "none"
  /\ dir_i = 0
  /\ cmd = NoCommand
  /\ prefix = <<>>
  /\ compiler_path = None
  /\ discovered = {}
  /\ trace = <<>>
  /\ status = "none"
  /\ had_stale = FALSE
  /\ result = NoResult

OutDir(path) ==
  /\ pc = "idle"
  /\ out_dir' = Some(path)
  /\ UNCHANGED <<world, target, host, lua52compat, debug, fs, io_faults, frame>>

Target(t) ==
  /\ pc = "idle"
  /\ target' = Some(t)
  /\ UNCHANGED <<world, out_dir, host, lua52compat, debug, fs, io_faults, frame>>

Host(h) ==
  /\ pc = "idle"
  /\ host' = Some(h)
  /\ UNCHANGED <<world, out_dir, target, lua52compat, debug, fs, io_faults, frame>>

Lua52Compat(enabled) ==
  /\ pc = "idle"
  /\ lua52compat' = enabled
  /\ UNCHANGED <<world, out_dir, target, host, debug, fs, io_faults, frame>>

Debug(d) ==
  /\ pc = "idle"
  /\ debug' = Some(d)
  /\ UNCHANGED <<world, out_dir, target, host, lua52compat, fs, io_faults, frame>>

(***************************************************************************)
(* try_build: dispatch, and the entry checks of build_unix / build_msvc    *)
(***************************************************************************)
\* IsMsvc testing for a Windows target instead of the MSVC toolchain.
IsMsvcByWindows(t) == Contains(t, S_windows)

\* target.contains("msvc")
IsMsvc(t) == Contains(t, S_msvc)

\* UnixRequired with the host left to cmd_make's own expect.
UnixRequiredLate == <<"TARGET", "OUT_DIR">>

\* The settings build_unix unwraps before it touches the disk, in order.
UnixRequired == <<"TARGET", "HOST", "OUT_DIR">>
\* The settings build_msvc unwraps before it touches the disk, in order.
MsvcRequired == <<"TARGET", "OUT_DIR">>

Setting(name) ==
  CASE name = "TARGET" -> target
    [] name = "HOST" -> host
    [] name = "OUT_DIR" -> out_dir

\* The settings of `required` that are None, in the order they are unwrapped.
Unset(required) == SelectSeq(required, LAMBDA n : IsNone(Setting(n)))

ExpectMsg(name) ==
  CASE name = "TARGET" -> "TARGET is not set"
    [] name = "HOST" -> "HOST is not set"
    [] name = "OUT_DIR" -> "OUT_DIR is not set"

HasContent(d) == IsSome(fs[d]) /\ Unwrap(fs[d]) # {}

\* The frame of try_build dies when it returns or unwinds; what stays is what
\* the caller got (result) and the log of the steps taken (route, trace, status).
Return(r) ==
  /\ pc' = "idle"
  /\ result' = r
  /\ dir_i' = 0
  /\ cmd' = NoCommand
  /\ prefix' = <<>>
  /\ compiler_path' = None
  /\ discovered' = {}
  /\ had_stale' = FALSE

TryBuild ==
  /\ pc = "idle"
  /\ trace' = <<>>
  /\ status' = "none"
  /\ IF IsNone(target)
       THEN /\ route' = "none"
            /\ Return(Panic(ExpectMsg("TARGET")))
       ELSE LET r == IF IsMsvc(Unwrap(target)) THEN "msvc" ELSE "unix"
                missing == Unset(IF r = "msvc" THEN MsvcRequired ELSE UnixRequired)
            IN  /\ route' = r
                /\ IF missing # <<>>
                     THEN Return(Panic(ExpectMsg(Head(missing))))
                     ELSE /\ result' = Pending
                          /\ pc' = "cleanup"
                          /\ dir_i' = 1
                          /\ had_stale' = \E i \in 1..Len(Dirs) : HasContent(Dirs[i])
                          /\ UNCHANGED <<cmd, prefix, compiler_path, discovered>>
  /\ UNCHANGED <<world, config, fs, io_faults>>

\* build(): try_build().expect("LuaJIT build failed")
build_outcome ==
  IF result.kind = "Err" THEN Panic("LuaJIT build failed") ELSE result

(***************************************************************************)
(* The vendored source tree (manifest_dir/luajit2) and the staging of it   *)
(***************************************************************************)
\* fs::read_dir of a directory of the source tree: the names it yields.
ReadDir(dir) ==
  CASE dir = <<>> -> <<".git", "src">>
    [] dir = <<".git">> -> <<"HEAD">>
    [] dir = <<"src">> -> <<"Makefile", "lauxlib.h", "lua.h", "luaconf.h",
                            "luajit_rolling.h", "lualib.h", "msvcbuild.bat">>
    [] OTHER -> <<>>

\* f.file_type().unwrap().is_dir()
IsDir(path) == path \in {<<".git">>, <<"src">>}

\* cp_r(src/dir, dst/dir): the paths it creates under dst, in the order it
\* creates them, starting at entry i of dir.
RECURSIVE CpRFrom(_, _)
CpRFrom(dir, i) ==
  IF i > Len(ReadDir(dir)) THEN <<>>
  ELSE LET name == ReadDir(dir)[i]
           path == Append(dir, name)
           here == IF name = ".git" THEN <<>>
                   ELSE IF IsDir(path) THEN <<path>> \o CpRFrom(path, 1)
                   ELSE <<path>>
       IN  here \o CpRFrom(dir, i + 1)

cp_r == CpRFrom(<<>>, 1)

Range(seq) == {seq[i] : i \in 1..Len(seq)}

\* RemoveAndCreate without the remove_dir_all.
RemoveAndCreateKeeps(d) == IF IsSome(d) THEN d ELSE Some({})

\* One iteration of the cleanup loop on a directory in state d:
\* remove_dir_all if it exists, then create_dir_all.
RemoveAndCreate(d) == Some({})

Step(name) == trace' = Append(trace, name)

Cleanup ==
  /\ pc = "cleanup"
  /\ Step("cleanup")
  /\ LET d == Dirs[dir_i] IN
     \/ \* remove_dir_all fails, part way or at once
        /\ io_faults > 0
        /\ IsSome(fs[d])
        /\ io_faults' = io_faults - 1
        /\ \E left \in {Unwrap(fs[d]), {}} : fs' = [fs EXCEPT ![d] = Some(left)]
        /\ Return(Err("Cannot remove"))
     \/ \* create_dir_all fails
        /\ io_faults > 0
        /\ io_faults' = io_faults - 1
        /\ fs' = [fs EXCEPT ![d] = None]
        /\ Return(Err("Cannot create"))
     \/ /\ fs' = [fs EXCEPT ![d] = RemoveAndCreate(fs[d])]
        /\ IF dir_i < Len(Dirs)
             THEN pc' = "cleanup" /\ dir_i' = dir_i + 1
             ELSE pc' = "cp_r" /\ dir_i' = 0
        /\ UNCHANGED <<io_faults, cmd, prefix, compiler_path, discovered,
                       had_stale, result>>
  /\ UNCHANGED <<world, config, route, status>>

CpR ==
  /\ pc = "cp_r"
  /\ Step("cp_r")
  /\ \E n \in 0..Len(cp_r) :
       LET copied == Range(SubSeq(cp_r, 1, n))
       IN  /\ fs' = [fs EXCEPT !["build"] = Some(Unwrap(fs["build"]) \cup copied)]
           /\ IF n = Len(cp_r)
                THEN /\ pc' = "relver"
                     /\ UNCHANGED <<io_faults, dir_i, cmd, prefix, compiler_path,
                                    discovered, had_stale, result>>
                ELSE \* read_dir, create_dir_all or copy fails at entry n + 1
                     /\ io_faults > 0
                     /\ io_faults' = io_faults - 1
                     /\ Return(Err("Cannot copy"))
  /\ UNCHANGED <<world, config, route, status>>

\* fs::copy(luajit_relver.txt, build_dir/.relver); on the Unix path also
\* metadata + set_permissions of the copy.
Relver ==
  /\ pc = "relver"
  /\ Step("relver")
  /\ \/ /\ io_faults > 0
        /\ io_faults' = io_faults - 1
        /\ UNCHANGED fs
        /\ Return(Err("Cannot copy 'luajit_relver.txt'"))
     \/ /\ io_faults > 0
        /\ route = "unix"
        /\ io_faults' = io_faults - 1
        /\ fs' = [fs EXCEPT !["build"] = Some(Unwrap(fs["build"]) \cup {<<".relver">>})]
        /\ Return(Err("Cannot set permissions"))
     \/ /\ fs' = [fs EXCEPT !["build"] = Some(Unwrap(fs["build"]) \cup {<<".relver">>})]
        /\ pc' = IF route = "unix" THEN "make_command" ELSE "msvc_command"
        /\ UNCHANGED <<io_faults, dir_i, cmd, prefix, compiler_path, discovered,
                       had_stale, result>>
  /\ UNCHANGED <<world, config, route, status>>

(***************************************************************************)
(* build_unix: the make command and the environment assembled for it       *)
(***************************************************************************)
\* The directories which::which searches, and the working directory.
SearchPath == <<S_usr>>
Cwd == S_cwd

\* Path::is_file on a tool path
IsFile(path) == path \in tools

\* which::which(name): a name with a separator is taken as a path (relative
\* to the working directory); a bare name is looked up on the search path.
Which(name) ==
  IF HasSeparator(name)
    THEN LET path == Join(Cwd, name)
         IN  IF IsFile(path) THEN Some(path) ELSE None
    ELSE LET hits == SelectSeq(SearchPath, LAMBDA dir : IsFile(Join(dir, name)))
         IN  IF hits = <<>> THEN None ELSE Some(Join(Head(hits), name))

\* Command::env(name, value)
SetEnv(c, name, value) == [c EXCEPT !.env[name] = Some(value)]

\* What the spawned process sees: the inherited environment, overlaid with
\* the variables set on the Command.
ChildEnv(name) == IF IsSome(cmd.env[name]) THEN cmd.env[name] ELSE penv[name]

\* cmd_make's match on the host triple
CmdMake(h) ==
  IF h = x86_64_unknown_dragonfly THEN "gmake"
  ELSE IF h = x86_64_unknown_freebsd THEN "gmake"
  ELSE "make"

\* The match on the target triple: the variables it sets on `c`.
TargetEnv(c, t) ==
  IF t = x86_64_apple_darwin /\ EnvAbsent("MACOSX_DEPLOYMENT_TARGET")
    THEN SetEnv(c, "MACOSX_DEPLOYMENT_TARGET", S_10_14)
  ELSE IF t = aarch64_apple_darwin /\ EnvAbsent("MACOSX_DEPLOYMENT_TARGET")
    THEN SetEnv(c, "MACOSX_DEPLOYMENT_TARGET", S_11_0)
  ELSE IF Contains(t, S_linux) THEN SetEnv(c, "TARGET_SYS", S_Linux)
  ELSE IF Contains(t, S_windows) THEN SetEnv(c, "TARGET_SYS", S_Windows)
  ELSE c

\* cc.get_compiler(), self.cmd_make(), current_dir, arg("-e"), match target
MakeCommand ==
  /\ pc = "make_command"
  /\ Step("make_command")
  /\ IF IsNone(host)
       THEN Return(Panic(ExpectMsg("HOST")))
       ELSE /\ discovered' = discovered \cup {"compiler"}
            /\ cmd' = TargetEnv([program |-> CmdMake(Unwrap(host)),
                                 args |-> <<"-e">>, env |-> NoEnv],
                                Unwrap(target))
            /\ pc' = "host_cc"
            /\ UNCHANGED <<dir_i, prefix, compiler_path, had_stale, result>>
  /\ UNCHANGED <<world, config, fs, io_faults, route, status>>

\* cc::Build::new().target(host).get_compiler().path()
HostCompiler(h) == S_cc

\* env::var("CARGO_CFG_TARGET_POINTER_WIDTH").unwrap(), then HOST_CC
HostCc ==
  /\ pc = "host_cc"
  /\ Step("host_cc")
  /\ IF IsNone(penv["CARGO_CFG_TARGET_POINTER_WIDTH"])
       THEN Return(Panic("CARGO_CFG_TARGET_POINTER_WIDTH"))
       ELSE /\ IF /\ Unwrap(penv["CARGO_CFG_TARGET_POINTER_WIDTH"]) = S_32
                  /\ EnvAbsent("HOST_CC")
                 THEN /\ cmd' = SetEnv(cmd, "HOST_CC",
                                       HostCompiler(Unwrap(host)) \o S_m32)
                      /\ discovered' = discovered \cup {"HOST_CC"}
                 ELSE UNCHANGED <<cmd, discovered>>
            /\ pc' = "which"
            /\ UNCHANGED <<dir_i, prefix, compiler_path, had_stale, result>>
  /\ UNCHANGED <<world, config, fs, io_faults, route, status>>

\* The cross prefix inferred from the compiler path as cc reports it.
Prefix(path) ==
  IF EndsWith(path, S_dash_gcc) THEN DropLast(path, Len(S_gcc))
  ELSE IF EndsWith(path, S_dash_clang) THEN DropLast(path, Len(S_clang))
  ELSE <<>>

\* STATIC_CC and TARGET_LD: "{compiler_path} {compiler_args}", each only if
\* the caller's environment does not have it.
CompilerEnv(c, path) ==
  LET line == path \o S_space \o compiler.args
      c1 == IF EnvAbsent("STATIC_CC") THEN SetEnv(c, "STATIC_CC", line) ELSE c
  IN  IF EnvAbsent("TARGET_LD") THEN SetEnv(c1, "TARGET_LD", line) ELSE c1

\* prefix, which::which(compiler_path), bindir, STATIC_CC, TARGET_LD
WhichCompiler ==
  /\ pc = "which"
  /\ Step("which")
  /\ IF IsNone(Which(compiler.path))
       THEN Return(Err("Cannot find compiler"))
       ELSE /\ prefix' = Prefix(compiler.path)
            /\ compiler_path' = Which(compiler.path)
            /\ cmd' = CompilerEnv(cmd, Unwrap(Which(compiler.path)))
            /\ pc' = "find_ar"
            /\ UNCHANGED <<dir_i, discovered, had_stale, result>>
  /\ UNCHANGED <<world, config, fs, io_faults, route, status>>

\* compiler.is_like_clang() / compiler.is_like_gnu()
IsLikeClang == compiler.family = "clang"
IsLikeGnu == compiler.family = "gnu"

\* The if / else-if chain that picks the archiver (tool = "ar", llvm =
\* "llvm-ar") or the strip tool: Some(path), or None where the code panics.
FindTool(bindir, pre, tool, llvm) ==
  IF IsFile(Join(bindir, pre \o tool)) THEN Some(Join(bindir, pre \o tool))
  ELSE IF IsLikeClang /\ IsFile(Join(bindir, llvm)) THEN Some(Join(bindir, llvm))
  ELSE IF IsLikeGnu /\ IsFile(Join(bindir, tool)) THEN Some(Join(bindir, tool))
  ELSE Which(pre \o tool)

\* Find ar
FindAr ==
  /\ pc = "find_ar"
  /\ Step("find_ar")
  /\ IF EnvAbsent("TARGET_AR")
       THEN LET ar == FindTool(Parent(Unwrap(compiler_path)), prefix, S_ar, S_llvm_ar)
            IN  IF IsNone(ar)
                  THEN Return(Panic("cannot find ar"))
                  ELSE /\ cmd' = SetEnv(cmd, "TARGET_AR", Unwrap(ar) \o S_rcus)
                       /\ discovered' = discovered \cup {"TARGET_AR"}
                       /\ pc' = "find_strip"
                       /\ UNCHANGED <<dir_i, prefix, compiler_path, had_stale, result>>
       ELSE /\ pc' = "find_strip"
            /\ UNCHANGED <<dir_i, cmd, prefix, compiler_path, discovered,
                           had_stale, result>>
  /\ UNCHANGED <<world, config, fs, io_faults, route, status>>

\* Find strip
FindStrip ==
  /\ pc = "find_strip"
  /\ Step("find_strip")
  /\ IF EnvAbsent("TARGET_STRIP")
       THEN LET strip == FindTool(Parent(Unwrap(compiler_path)), prefix,
                                  S_strip, S_llvm_strip)
            IN  IF IsNone(strip)
                  THEN Return(Panic("cannot find strip"))
                  ELSE /\ cmd' = SetEnv(cmd, "TARGET_STRIP", Unwrap(strip))
                       /\ discovered' = discovered \cup {"TARGET_STRIP"}
                       /\ pc' = "xcflags"
                       /\ UNCHANGED <<dir_i, prefix, compiler_path, had_stale, result>>
       ELSE /\ pc' = "xcflags"
            /\ UNCHANGED <<dir_i, cmd, prefix, compiler_path, discovered,
                           had_stale, result>>
  /\ UNCHANGED <<world, config, fs, io_faults, route, status>>

\* [&str]::join(" ")
RECURSIVE JoinWith(_, _)
JoinWith(strs, sep) ==
  IF strs = <<>> THEN <<>>
  ELSE IF Len(strs) = 1 THEN Head(strs)
  ELSE Head(strs) \o sep \o JoinWith(Tail(strs), sep)

\* EffectiveDebug that does not read the caller's setting.
EffectiveDebugIgnoresSetter == debug_assertions

\* self.debug.unwrap_or(cfg!(debug_assertions))
EffectiveDebug == IF IsSome(debug) THEN Unwrap(debug) ELSE debug_assertions

\* The xcflags vector
Xcflags(compat, dbg) ==
  <<S_fPIC>>
    \o (IF compat THEN <<S_DLUAJIT_ENABLE_LUA52COMPAT>> ELSE <<>>)
    \o (IF dbg THEN <<S_DLUA_USE_ASSERT, S_DLUA_USE_APICHECK>> ELSE <<>>)

\* xcflags, CCDEBUG, BUILDMODE, XCFLAGS
MakeFlags ==
  /\ pc = "xcflags"
  /\ Step("xcflags")
  /\ LET c1 == IF EffectiveDebug THEN SetEnv(cmd, "CCDEBUG", S_g) ELSE cmd
         c2 == SetEnv(c1, "BUILDMODE", S_static)
     IN  cmd' = SetEnv(c2, "XCFLAGS",
                       JoinWith(Xcflags(lua52compat, EffectiveDebug), S_space))
  /\ pc' = "run"
  /\ UNCHANGED <<dir_i, prefix, compiler_path, discovered, had_stale, result>>
  /\ UNCHANGED <<world, config, fs, io_faults, route, status>>

(***************************************************************************)
(* build_msvc: the msvcbuild.bat command                                   *)
(***************************************************************************)
\* The arguments of msvcbuild.bat
MsvcArgs(compat) ==
  (IF compat THEN <<"lua52compat">> ELSE <<>>) \o <<"static">>

\* cc::windows_registry::find_tool(target, "cl.exe") is outside this crate:
\* it finds cl, with the environment to run it in, or finds nothing.
MsvcCommand ==
  /\ pc = "msvc_command"
  /\ Step("msvc_command")
  /\ \E found \in BOOLEAN :
       IF found
         THEN /\ cmd' = SetEnv([program |-> "msvcbuild.bat",
                                args |-> MsvcArgs(lua52compat), env |-> NoEnv],
                               "INCLUDE", S_include)
              /\ discovered' = discovered \cup {"cl"}
              /\ pc' = "run"
              /\ UNCHANGED <<dir_i, prefix, compiler_path, had_stale, result>>
         ELSE Return(Panic("failed to find cl"))
  /\ UNCHANGED <<world, config, fs, io_faults, route, status>>

(***************************************************************************)
(* run_command, and Artifacts::make                                        *)
(***************************************************************************)
\* LibName with the two platform families swapped.
LibNameSwapped(is_msvc) == IF is_msvc THEN "luajit" ELSE "lua51"

LibName(is_msvc) == IF ~is_msvc THEN "luajit" ELSE "lua51"
LibFile(is_msvc) == IF ~is_msvc THEN "libluajit.a" ELSE "lua51.lib"

\* The header names Artifacts::make copies, in the order of its loop.
Headers == <<"lauxlib.h", "lua.h", "luaconf.h", "luajit.h", "lualib.h">>

\* What the external build may leave in build_dir/src: luajit.h (generated
\* from luajit_rolling.h and .relver) and the static library.
Products(is_msvc) == {<<"src", "luajit.h">>, <<"src", LibFile(is_msvc)>>}

\* Failed that takes every exit status for success.
FailedNever(st) == FALSE

\* !status.success()
Failed(st) == st # "success"

\* command.status()?, the check of the exit status, and the `?` after it
RunCommand ==
  /\ pc = "run"
  /\ Step("run")
  /\ \E st \in {"nolaunch", "exit1", "success"} :
     \E made \in SUBSET Products(route = "msvc") :
       /\ st = "nolaunch" => made = {}
       /\ status' = st
       /\ fs' = [fs EXCEPT !["build"] = Some(Unwrap(fs["build"]) \cup made)]
       /\ IF Failed(st)
            THEN Return(Err("Error running"))
            ELSE /\ pc' = "artifacts"
                 /\ UNCHANGED <<dir_i, cmd, prefix, compiler_path, discovered,
                                had_stale, result>>
  /\ UNCHANGED <<world, config, io_faults, route>>

\* The value Artifacts::make returns
Artifacts(include_dir, lib_dir, is_msvc) ==
  [kind |-> "Ok", msg |-> "", include_dir |-> include_dir, lib_dir |-> lib_dir,
   libs |-> <<LibName(is_msvc)>>]

\* Whether the library file is copied: build_dir/src/lib_file exists.
CopiesLib(built, is_msvc) == <<"src", LibFile(is_msvc)>> \in built

ArtifactsMake ==
  /\ pc = "artifacts"
  /\ Step("artifacts")
  /\ LET is_msvc == route = "msvc"
         built == Unwrap(fs["build"])
         include_dir == Join(Unwrap(out_dir), DirName["include"])
         lib_dir == Join(Unwrap(out_dir), DirName["lib"])
         Copied(n) == {<<Headers[i]>> : i \in 1..n}
     IN  \E n \in 0..Len(Headers) :
           \* the first n headers are copied
           /\ \A i \in 1..n : <<"src", Headers[i]>> \in built
           /\ IF n < Len(Headers)
                THEN \* the copy of header n + 1 fails
                     /\ fs' = [fs EXCEPT !["include"] =
                                 Some(Unwrap(fs["include"]) \cup Copied(n))]
                     /\ \/ /\ <<"src", Headers[n + 1]>> \notin built
                           /\ UNCHANGED io_faults
                        \/ /\ <<"src", Headers[n + 1]>> \in built
                           /\ io_faults > 0
                           /\ io_faults' = io_faults - 1
                     /\ Return(Err("Cannot copy header"))
                ELSE IF CopiesLib(built, is_msvc)
                  THEN \/ /\ fs' = [fs EXCEPT
                                      !["include"] = Some(Unwrap(fs["include"]) \cup Copied(n)),
                                      !["lib"] = Some(Unwrap(fs["lib"])
                                                      \cup {<<LibFile(is_msvc)>>})]
                          /\ UNCHANGED io_faults
                          /\ Return(Artifacts(include_dir, lib_dir, is_msvc))
                       \/ /\ io_faults > 0
                          /\ io_faults' = io_faults - 1
                          /\ fs' = [fs EXCEPT !["include"] =
                                      Some(Unwrap(fs["include"]) \cup Copied(n))]
                          /\ Return(Err("Cannot copy library"))
                  ELSE /\ fs' = [fs EXCEPT !["include"] =
                                   Some(Unwrap(fs["include"]) \cup Copied(n))]
                       /\ UNCHANGED io_faults
                       /\ Return(Artifacts(include_dir, lib_dir, is_msvc))
  /\ UNCHANGED <<world, config, route, status>>

(***************************************************************************)
(* Initial states and specifications                                       *)
(***************************************************************************)
\* How many I/O errors the operating system returns in one behaviour.
MaxFaults == 2
\* How many companion tool files exist besides the compiler.
MaxTools == 3

\* The environment cargo gives a build script.
CargoEnv(t, h) ==
  [v \in EnvVars |->
     CASE v = "OUT_DIR" -> Some(OutRoot)
       [] v = "TARGET" -> Some(t)
       [] v = "HOST" -> Some(h)
       [] v = "CARGO_CFG_TARGET_POINTER_WIDTH" -> Some(S_64)
       [] OTHER -> None]

\* The variables a caller may preset, each with the value it is preset to.
Preset ==
  [HOST_CC |-> S_hcc, STATIC_CC |-> S_scc, TARGET_LD |-> S_sld,
   TARGET_AR |-> S_xar, TARGET_STRIP |-> S_xstrip, TARGET_SYS |-> S_iOS,
   MACOSX_DEPLOYMENT_TARGET |-> S_12_0]
OverrideVars == DOMAIN Preset

WithPresets(env, names) ==
  [v \in EnvVars |-> IF v \in names THEN Some(Preset[v]) ELSE env[v]]

WithWidth(env, w) == [env EXCEPT !["CARGO_CFG_TARGET_POINTER_WIDTH"] = w]

Without(env, names) == [v \in EnvVars |-> IF v \in names THEN None ELSE env[v]]

\* A native toolchain installed on the search path.
NativeCompiler == [path |-> S_cc, family |-> "gnu", args |-> S_O2]
NativeTools == {Join(S_usr, S_cc), Join(S_usr, S_ar), Join(S_usr, S_strip)}

InitBuild ==
  /\ BuildDefault
  /\ NoFrame
  /\ fs = [d \in Range(Dirs) |-> None]

\* Any configuration, on a machine with a native toolchain: the caller is a
\* build script, or sets everything itself.
Init ==
  /\ penv \in {CargoEnv(x86_64_unknown_linux_gnu, x86_64_unknown_linux_gnu),
               Without(CargoEnv(x86_64_unknown_linux_gnu, x86_64_unknown_linux_gnu),
                       {"OUT_DIR", "TARGET", "HOST"})}
  /\ tools = NativeTools
  /\ compiler = NativeCompiler
  /\ debug_assertions \in BOOLEAN
  /\ io_faults = 0
  /\ InitBuild

Steps ==
  \/ TryBuild
  \/ Cleanup
  \/ CpR
  \/ Relver
  \/ MakeCommand
  \/ HostCc
  \/ WhichCompiler
  \/ FindAr
  \/ FindStrip
  \/ MakeFlags
  \/ MsvcCommand
  \/ RunCommand
  \/ ArtifactsMake

Setters ==
  \/ OutDir(OutRoot)
  \/ \E t \in Targets : Target(t)
  \/ \E h \in Hosts : Host(h)
  \/ \E b \in BOOLEAN : Lua52Compat(b)
  \/ \E b \in BOOLEAN : Debug(b)

Next == Setters \/ Steps

Spec == Init /\ [][Next]_vars

\* The override variables in every combination, every target, and the
\* pointer width absent, 32 or 64, on a machine with a native toolchain.
InitEnv ==
  /\ penv \in {WithWidth(WithPresets(CargoEnv(t, x86_64_unknown_linux_gnu), names), w) :
                 t \in Targets, names \in SUBSET OverrideVars,
                 w \in {None, Some(S_32), Some(S_64)}}
  /\ tools = NativeTools
  /\ compiler = NativeCompiler
  /\ debug_assertions = FALSE
  /\ io_faults = 0
  /\ InitBuild

SpecEnv == InitEnv /\ [][Steps]_vars

\* The compilers cc may report: bare names found on the search path, an
\* absolute path, and a path relative to the working directory.
Compilers ==
  {NativeCompiler,
   [path |-> S_clang, family |-> "clang", args |-> S_O2],
   [path |-> S_arm_gcc, family |-> "gnu", args |-> S_O2],
   [path |-> S_arm_clang, family |-> "clang", args |-> S_O2],
   [path |-> S_abs_arm_gcc, family |-> "gnu", args |-> S_O2],
   [path |-> S_rel_arm_clang, family |-> "clang", args |-> S_O2]}

\* Where the compiler c is installed.
Installed(c) ==
  IF HasSeparator(c.path) THEN Join(Cwd, c.path) ELSE Join(S_usr, c.path)

\* The file-name prefix of a cross compiler: "arm-linux-gnueabihf-" for any
\* path whose file name is arm-linux-gnueabihf-gcc or arm-linux-gnueabihf-clang.
NamePrefix(path) ==
  LET name == FileName(path)
  IN  IF EndsWith(name, S_dash_gcc) THEN SubSeq(name, 1, Len(name) - 3)
      ELSE IF EndsWith(name, S_dash_clang) THEN SubSeq(name, 1, Len(name) - 5)
      ELSE <<>>

\* The companion tools that may be installed beside c or on the search path.
CompanionFiles(c) ==
  {Join(dir, name) :
     dir \in {Parent(Installed(c)), S_usr},
     name \in {NamePrefix(c.path) \o S_ar, S_llvm_ar, S_ar,
               NamePrefix(c.path) \o S_strip, S_llvm_strip, S_strip}}

\* Every compiler, with up to MaxTools companion tools installed (or not
\* even the compiler), TARGET_AR and TARGET_STRIP preset or not.
InitTools ==
  /\ \E t \in {x86_64_unknown_linux_gnu, x86_64_pc_windows_msvc} :
     \E names \in SUBSET {"TARGET_AR", "TARGET_STRIP"} :
       penv = WithPresets(CargoEnv(t, x86_64_unknown_linux_gnu), names)
  /\ compiler \in Compilers
  /\ \/ tools = {}
     \/ \E installed \in SUBSET CompanionFiles(compiler) :
          /\ Cardinality(installed) <= MaxTools
          /\ tools = {Installed(compiler)} \cup installed
  /\ debug_assertions = FALSE
  /\ io_faults = 0
  /\ InitBuild

SpecTools == InitTools /\ [][Steps]_vars

\* A build script on a disk that may fail, with the toolchain complete or
\* not, run again and again on the same output root.
InitFs ==
  /\ \E t \in {x86_64_unknown_linux_gnu, x86_64_pc_windows_msvc} :
     \E w \in {None, Some(S_64)} :
       penv = WithWidth(CargoEnv(t, x86_64_unknown_linux_gnu), w)
  /\ tools \in {NativeTools, NativeTools \ {Join(S_usr, S_ar)},
                NativeTools \ {Join(S_usr, S_strip)}, {}}
  /\ compiler = NativeCompiler
  /\ debug_assertions = FALSE
  /\ io_faults = MaxFaults
  /\ InitBuild

SpecFs == InitFs /\ [][Steps]_vars

(***************************************************************************)
(* Properties                                                              *)
(***************************************************************************)
Attempted == result.kind # "none"
Last(seq) == seq[Len(seq)]

ConfigPanic ==
  /\ result.kind = "Panic"
  /\ result.msg \in {"TARGET is not set", "HOST is not set", "OUT_DIR is not set"}

\* The build aborted on a missing setting before it took any step: no
\* directory was removed or created by it.
FailedBeforeDisk == pc = "idle" /\ ConfigPanic /\ trace = <<>>

SlotOf(name) ==
  CASE name \in {"STATIC_CC", "TARGET_LD"} -> "compiler"
    [] OTHER -> name

Running == pc \notin {"idle"}
Invoking == pc = "run"

\* C2 as claimed: on the Unix path every one of HOST_CC, STATIC_CC, TARGET_LD,
\* TARGET_AR, TARGET_STRIP, TARGET_SYS and MACOSX_DEPLOYMENT_TARGET that the
\* caller's environment holds is not set on the subprocess, reaches it with the
\* caller's value, and has no discovery performed for its slot.
C2_OverrideAll ==
  (Running /\ route = "unix") =>
    \A v \in OverrideVars :
      IsSome(penv[v]) =>
        /\ IsNone(cmd.env[v])
        /\ ChildEnv(v) = penv[v]
        /\ SlotOf(v) \notin discovered

\* C2 as the code has it: that holds for HOST_CC, STATIC_CC, TARGET_LD,
\* TARGET_AR, TARGET_STRIP and MACOSX_DEPLOYMENT_TARGET, the discovery being
\* skipped for HOST_CC, TARGET_AR and TARGET_STRIP (the compiler is looked up
\* whatever STATIC_CC and TARGET_LD are); TARGET_SYS is set to Linux or Windows
\* whenever the target names that system, preset or not.  For
\* aarch64-apple-darwin the subprocess sees MACOSX_DEPLOYMENT_TARGET = 11.0
\* when the caller has none and the caller's value when it has one.
C2_OverrideExceptTargetSys ==
  (Running /\ route = "unix") =>
    /\ \A v \in OverrideVars \ {"TARGET_SYS"} :
         IsSome(penv[v]) => (IsNone(cmd.env[v]) /\ ChildEnv(v) = penv[v])
    /\ \A v \in {"HOST_CC", "TARGET_AR", "TARGET_STRIP"} :
         IsSome(penv[v]) => v \notin discovered
    /\ Invoking =>
         /\ target = Some(aarch64_apple_darwin) =>
              ChildEnv("MACOSX_DEPLOYMENT_TARGET") =
                (IF IsSome(penv["MACOSX_DEPLOYMENT_TARGET"])
                   THEN Some(S_12_0) ELSE Some(S_11_0))
         /\ target = Some(x86_64_unknown_linux_gnu) =>
              ChildEnv("TARGET_SYS") = Some(S_Linux)
         /\ target = Some(x86_64_pc_windows_gnu) =>
              ChildEnv("TARGET_SYS") = Some(S_Windows)

\* C2's case: make is about to run for aarch64-apple-darwin with the caller's
\* MACOSX_DEPLOYMENT_TARGET = 12.0, TARGET_AR and HOST_CC in place, none of
\* them set on the command and no archiver looked up.
C2_Witness ==
  /\ Invoking /\ route = "unix"
  /\ target = Some(aarch64_apple_darwin)
  /\ penv["MACOSX_DEPLOYMENT_TARGET"] = Some(S_12_0)
  /\ ChildEnv("MACOSX_DEPLOYMENT_TARGET") = Some(S_12_0)
  /\ penv["CARGO_CFG_TARGET_POINTER_WIDTH"] = Some(S_32)
  /\ ChildEnv("HOST_CC") = Some(S_hcc)
  /\ ChildEnv("TARGET_AR") = Some(S_xar)
  /\ IsNone(penv["TARGET_STRIP"])
  /\ discovered = {"compiler", "TARGET_STRIP"}

\* The targets of the model whose triple contains "msvc".
MsvcTargets == {x86_64_pc_windows_msvc}
UnixSteps == {"make_command", "host_cc", "which", "find_ar", "find_strip", "xcflags"}
MsvcSteps == {"msvc_command"}

\* C3: a running build is on the Windows path exactly if its target triple
\* contains "msvc", whatever the host (set or not), and on the make path
\* otherwise; the batch script is invoked with ["lua52compat", "static"] when
\* compat_mode is on and ["static"] when it is off.
C3_Dispatch ==
  Running =>
    /\ (Unwrap(target) \in MsvcTargets) =>
         /\ route = "msvc"
         /\ pc \notin UnixSteps
         /\ Range(trace) \cap UnixSteps = {}
         /\ Invoking =>
              /\ cmd.program = "msvcbuild.bat"
              /\ cmd.args = IF lua52compat THEN <<"lua52compat", "static">>
                            ELSE <<"static">>
    /\ (Unwrap(target) \notin MsvcTargets) =>
         /\ route = "unix"
         /\ pc \notin MsvcSteps
         /\ Range(trace) \cap MsvcSteps = {}
         /\ Invoking => (cmd.program \in {"make", "gmake"} /\ cmd.args = <<"-e">>)

\* C3's case: the batch script is about to run for an MSVC target with no
\* host triple set and compat_mode on.
C3_Witness ==
  /\ Invoking
  /\ target = Some(x86_64_pc_windows_msvc)
  /\ IsNone(host)
  /\ lua52compat
  /\ cmd.program = "msvcbuild.bat"
  /\ cmd.args = <<"lua52compat", "static">>

\* The debug flag in effect: the caller's, or cfg!(debug_assertions).
DebugInEffect == debug = Some(TRUE) \/ (debug = None /\ debug_assertions)

\* C4: when make is invoked, XCFLAGS contains -fPIC, contains
\* -DLUAJIT_ENABLE_LUA52COMPAT exactly if compat_mode is on, contains
\* -DLUA_USE_ASSERT and -DLUA_USE_APICHECK, with CCDEBUG = -g, exactly if the
\* debug flag in effect is on, and BUILDMODE is static.
C4_Flags ==
  (Invoking /\ route = "unix") =>
    /\ IsSome(cmd.env["XCFLAGS"])
    /\ LET xcflags == Unwrap(cmd.env["XCFLAGS"])
       IN  /\ Contains(xcflags, S_fPIC)
           /\ Contains(xcflags, S_DLUAJIT_ENABLE_LUA52COMPAT) <=> lua52compat
           /\ Contains(xcflags, S_DLUA_USE_ASSERT) <=> DebugInEffect
           /\ Contains(xcflags, S_DLUA_USE_APICHECK) <=> DebugInEffect
    /\ cmd.env["CCDEBUG"] = (IF DebugInEffect THEN Some(S_g) ELSE None)
    /\ cmd.env["BUILDMODE"] = Some(S_static)

\* C4's case: make is about to run with compat_mode on and debug set off by
\* the caller in a crate built with debug assertions:
\* XCFLAGS = "-fPIC -DLUAJIT_ENABLE_LUA52COMPAT" and no CCDEBUG.
C4_Witness ==
  /\ Invoking /\ route = "unix"
  /\ lua52compat /\ debug = Some(FALSE) /\ debug_assertions
  /\ cmd.env["XCFLAGS"] = Some(S_fPIC_compat)
  /\ IsNone(cmd.env["CCDEBUG"])

\* The staged tree: the source tree without .git, and the release marker.
StagedTree ==
  {<<"src">>, <<"src", "Makefile">>, <<"src", "lauxlib.h">>, <<"src", "lua.h">>,
   <<"src", "luaconf.h">>, <<"src", "luajit_rolling.h">>, <<"src", "lualib.h">>,
   <<"src", "msvcbuild.bat">>, <<".relver">>}

\* C5: whenever the external build is invoked, after any earlier builds on the
\* output root, the build directory holds exactly the staged tree and the
\* library and include directories are empty.
C5_Fresh ==
  Invoking =>
    /\ fs["build"] = Some(StagedTree)
    /\ fs["lib"] = Some({})
    /\ fs["include"] = Some({})

\* C5's case: the external build is invoked by a build that started on
\* directories an earlier build had left content in.
C5_Witness == Invoking /\ had_stale /\ fs["build"] = Some(StagedTree)

\* The part of the build a step belongs to: 1 stage, 2 resolve the
\* toolchain, 3 run the external build, 4 collect the artifacts.
Phase(step) ==
  CASE step \in {"cleanup", "cp_r", "relver"} -> 1
    [] step \in UnixSteps \cup MsvcSteps -> 2
    [] step = "run" -> 3
    [] step = "artifacts" -> 4

\* The step at which each error arises.
StepOf(msg) ==
  CASE msg \in {"Cannot remove", "Cannot create"} -> "cleanup"
    [] msg = "Cannot copy" -> "cp_r"
    [] msg \in {"Cannot copy 'luajit_relver.txt'", "Cannot set permissions"} -> "relver"
    [] msg = "CARGO_CFG_TARGET_POINTER_WIDTH" -> "host_cc"
    [] msg = "Cannot find compiler" -> "which"
    [] msg = "cannot find ar" -> "find_ar"
    [] msg = "cannot find strip" -> "find_strip"
    [] msg = "failed to find cl" -> "msvc_command"
    [] msg = "Error running" -> "run"
    [] msg \in {"Cannot copy header", "Cannot copy library"} -> "artifacts"
    [] OTHER -> "none"

Failure == result.kind \in {"Err", "Panic"}

\* C6: the steps of a build run in the order stage, resolve, run, collect,
\* none of them twice (the cleanup loop has its three iterations); a build
\* that failed stopped at the step that failed and returned no Artifacts; the
\* collector runs only after an external build that exited successfully, and
\* Artifacts are returned only by a build that ran all four parts.
C6_AbortOnFirstFailure ==
  /\ \A i, j \in 1..Len(trace) :
       i < j => /\ Phase(trace[i]) <= Phase(trace[j])
                /\ trace[i] = trace[j] => trace[i] = "cleanup"
  /\ Cardinality({i \in 1..Len(trace) : trace[i] = "cleanup"}) <= Len(Dirs)
  /\ Failure =>
       /\ pc = "idle"
       /\ result.libs = <<>> /\ result.include_dir = <<>> /\ result.lib_dir = <<>>
       /\ IF ConfigPanic THEN trace = <<>>
          ELSE trace # <<>> /\ Last(trace) = StepOf(result.msg)
  /\ (pc = "artifacts" \/ "artifacts" \in Range(trace)) => status = "success"
  /\ status \in {"nolaunch", "exit1"} =>
       (pc = "idle" /\ result.kind = "Err" /\ Last(trace) = "run")
  /\ result.kind = "Ok" =>
       /\ status = "success"
       /\ {Phase(trace[i]) : i \in 1..Len(trace)} = 1..4
       /\ Last(trace) = "artifacts"

\* C6's case: make exited with a failure after it had produced the library
\* and the generated header; the build returned an error, the collector did
\* not run and the include directory is still empty.
C6_Witness ==
  /\ pc = "idle"
  /\ status = "exit1"
  /\ result.kind = "Err"
  /\ Last(trace) = "run"
  /\ Products(FALSE) \subseteq Unwrap(fs["build"])
  /\ fs["include"] = Some({})

\* C7: every try_build that fails, whatever the failure (setting absent,
\* filesystem error, tool not found, pointer width missing, process failure),
\* ends by returning an error value, never by aborting.
C7_TryBuildReturnsErr ==
  (pc = "idle" /\ Attempted /\ result.kind # "Ok") => result.kind = "Err"

\* C8: the Unix build invokes gmake for every host triple ending in
\* "-freebsd" or "-dragonfly" and make for every other host triple, and
\* fails if the host triple is absent.
C8_MakeDriver ==
  /\ (Invoking /\ route = "unix") =>
       cmd.program =
         (IF EndsWith(Unwrap(host), S_freebsd) \/ EndsWith(Unwrap(host), S_dragonfly)
            THEN "gmake" ELSE "make")
  /\ (Running /\ route = "unix") => IsSome(host)

\* The candidates for a companion tool in the order claimed: prefix+tool in
\* the compiler's directory, the LLVM tool there for a Clang-like compiler,
\* the plain tool there for a GCC-like one, prefix+tool on the search path.
Candidates(tool, llvm) ==
  LET bindir == Parent(Unwrap(Which(compiler.path)))
      named == NamePrefix(compiler.path) \o tool
  IN  <<Join(bindir, named)>>
        \o (IF compiler.family = "clang" THEN <<Join(bindir, llvm)>> ELSE <<>>)
        \o (IF compiler.family = "gnu" THEN <<Join(bindir, tool)>> ELSE <<>>)
        \o [i \in 1..Len(SearchPath) |-> Join(SearchPath[i], named)]

FirstExisting(candidates) ==
  LET existing == SelectSeq(candidates, LAMBDA path : path \in tools)
  IN  IF existing = <<>> THEN None ELSE Some(Head(existing))

\* C9: the inferred prefix of a compiler path is its file name minus "gcc" or
\* "clang" when the file name ends in "-gcc" or "-clang"; TARGET_AR, when not
\* overridden, is the first existing candidate followed by " rcus", and
\* TARGET_STRIP the first existing candidate; the build fails if there is none.
C9_CompanionTools ==
  route = "unix" =>
    /\ pc \in {"find_ar", "find_strip", "xcflags", "run"} =>
         prefix = NamePrefix(compiler.path)
    /\ (pc \in {"find_strip", "xcflags", "run"} /\ IsNone(penv["TARGET_AR"])) =>
         /\ IsSome(FirstExisting(Candidates(S_ar, S_llvm_ar)))
         /\ cmd.env["TARGET_AR"] =
              Some(Unwrap(FirstExisting(Candidates(S_ar, S_llvm_ar))) \o S_rcus)
    /\ (pc \in {"xcflags", "run"} /\ IsNone(penv["TARGET_STRIP"])) =>
         /\ IsSome(FirstExisting(Candidates(S_strip, S_llvm_strip)))
         /\ cmd.env["TARGET_STRIP"] = FirstExisting(Candidates(S_strip, S_llvm_strip))
    /\ (pc = "idle" /\ result.msg = "cannot find ar") =>
         IsNone(FirstExisting(Candidates(S_ar, S_llvm_ar)))
    /\ (pc = "idle" /\ result.msg = "cannot find strip") =>
         IsNone(FirstExisting(Candidates(S_strip, S_llvm_strip)))

\* C10: a build that returned Artifacts left the five public headers in the
\* include directory, the static library in the library directory exactly if
\* the external build had produced it, and names one library, "luajit" on the
\* Unix path and "lua51" on the MSVC path, with include_dir and lib_dir the
\* directories under the output root; a header missing after a successful
\* external build makes the build fail.
C10_Collect ==
  /\ (pc = "idle" /\ result.kind = "Ok") =>
       LET lib == IF route = "msvc" THEN "lua51.lib" ELSE "libluajit.a"
       IN  /\ fs["include"] = Some({<<"lauxlib.h">>, <<"lua.h">>, <<"luaconf.h">>,
                                    <<"luajit.h">>, <<"lualib.h">>})
           /\ fs["lib"] = Some(IF <<"src", lib>> \in Unwrap(fs["build"])
                                 THEN {<<lib>>} ELSE {})
           /\ result.libs = <<IF route = "msvc" THEN "lua51" ELSE "luajit">>
           /\ result.include_dir = S_o_include
           /\ result.lib_dir = S_o_lib
  /\ (pc = "idle" /\ status = "success"
        /\ <<"src", "luajit.h">> \notin Unwrap(fs["build"])) =>
       (result.kind = "Err" /\ result.msg = "Cannot copy header")

\* C10's case: a Unix build returned Artifacts naming "luajit" although make
\* had produced no libluajit.a: the library directory is empty.
C10_Witness ==
  /\ pc = "idle"
  /\ result.kind = "Ok"
  /\ route = "unix"
  /\ <<"src", "libluajit.a">> \notin Unwrap(fs["build"])
  /\ fs["lib"] = Some({})
  /\ result.libs = <<"luajit">>
=============================================================================
